---- MODULE Spec2Model ----
(***************************************************************************)
(* A model of src/gemini.py (class GeminiGUI): the in-memory session store *)
(* (all_conversations, current_chat_index and the aliased handle           *)
(* conversation_history), the request/response lifecycle of one turn       *)
(* (send_message_event on the Tk main thread, get_gemini_response on a     *)
(* worker thread, root.after callbacks drained by the main loop), the      *)
(* fenced-code segmenter and the save-code affordance.                     *)
(*                                                                         *)
(* Text is a sequence of characters, each a one-character string (the      *)
(* backquote, which a TLA+ string cannot hold, is the value BQ).  A Python *)
(* list is identified by the 0-based position of the record that owns      *)
(* it: the attribute self.conversation_history is a reference to one of    *)
(* those lists, so the variable conversation_history holds that position.  *)
(* Handlers run by the Tk main loop are atomic with respect to each other; *)
(* the worker thread is split at every place where it reads the attribute  *)
(* self.conversation_history, so main-thread handlers interleave there.    *)
(***************************************************************************)
EXTENDS Integers, Sequences, FiniteSets, TLC

(* ------------------------------ bounds -------------------------------- *)
\* conversations created plus turns submitted
MaxWork == 3
\* tokens of a message handed to the segmenter
MaxTokens == 5

(* ------------------------- program constants -------------------------- *)
TitleLimit == 30

(* ------------------------------- text --------------------------------- *)
NewChat == <<"N", "e", "w", " ", "C", "h", "a", "t">>
Ellipsis == <<".", ".", ".">>
\* the backquote character (U+0060)
BQ == "BQ"
Digits == <<"0", "1", "2", "3", "4", "5", "6", "7", "8", "9">>

RECURSIVE IntToStr(_)
IntToStr(n) == IF n < 10 THEN <<Digits[n + 1]>>
               ELSE IntToStr(n \div 10) \o <<Digits[(n % 10) + 1]>>

StartsWith(s, prefix) ==
    Len(s) >= Len(prefix) /\ SubSeq(s, 1, Len(prefix)) = prefix

\* f"New Chat {len(self.all_conversations) + 1}"
NewChatTitle(n) == NewChat \o <<" ">> \o IntToStr(n)

\* title.startswith("New Chat")
IsPlaceholder(title) == StartsWith(title, NewChat)

\* the truncation alone, without the "..."
DeriveTitle_NoEllipsis(text) ==
    IF Len(text) > TitleLimit THEN SubSeq(text, 1, TitleLimit) ELSE text

\* text[:30] + "..." if len(text) > 30 else text
DeriveTitle(text) ==
    IF Len(text) > TitleLimit THEN SubSeq(text, 1, TitleLimit) \o Ellipsis ELSE text

\* f"Chat {datetime.datetime.now().strftime('%H:%M %b %d')}": the clock is an
\* input, two readings of it stand for all.
Timestamps ==
    { <<"C", "h", "a", "t", " ", "0", "9", ":", "0", "0", " ", "J", "a", "n", " ", "0", "1">>,
      <<"C", "h", "a", "t", " ", "2", "3", ":", "5", "9", " ", "D", "e", "c", " ", "3", "1">> }

(* ---------------------------- user input ------------------------------ *)
\* 35 characters (Scenario D of the specification)
PlanTrip == <<"P", "l", "a", "n", " ", "m", "y", " ", "t", "r", "i", "p", " ",
              "t", "o", " ", "J", "a", "p", "a", "n", " ", "f", "o", "r", " ",
              "t", "w", "o", " ", "w", "e", "e", "k", "s">>
\* a prompt that itself begins with "New Chat"
NewChatTips == NewChat \o <<" ", "t", "i", "p", "s">>

\* self.input_entry.get().strip(): what the user may have typed
Prompts == { <<>>, PlanTrip, NewChatTips }

(* ------------------------------ messages ------------------------------ *)
\* {"role": role, "parts": [{"text": text}]}
Message(role, text) == [role |-> role, text |-> text]

\* the loop of new_chat / load_chat_session that looks for the first user
\* message with a non-empty text; "" when there is none
RECURSIVE FirstUserText(_)
FirstUserText(history) ==
    IF history = <<>> THEN <<>>
    ELSE IF Head(history).role = "user" /\ Head(history).text # <<>>
         THEN Head(history).text
         ELSE FirstUserText(Tail(history))

(* ------------------------- Python subscripts -------------------------- *)
NoIndex == -1

\* position (0-based) that lst[i] denotes for a list of n items, NoIndex
\* when Python raises IndexError; a negative i counts from the end
PyIndex(n, i) ==
    IF 0 <= i /\ i < n THEN i
    ELSE IF -n <= i /\ i < 0 THEN n + i
    ELSE NoIndex

(* --------------------------- JSON responses --------------------------- *)
\* a parsed JSON value, tagged with its Python type
JDict(f) == [t |-> "dict", v |-> f]
JList(s) == [t |-> "list", v |-> s]
JStr(s) == [t |-> "str", v |-> s]
JNull == [t |-> "NoneType", v |-> <<>>]

\* the result of evaluating an expression: a value, or the exception raised
Value(val) == [exc |-> "none", val |-> val]
Raise(exc) == [exc |-> exc, val |-> JNull]

\* a subscript: a string key or an integer index >= 0
Key(k) == [t |-> "str", v |-> k]
Index(i) == [t |-> "int", v |-> i]

\* obj[s1][s2]... for the subscripts of path, as Python evaluates it: a
\* string key of a dict is looked up (KeyError when missing), an integer
\* index of a list or str is taken (IndexError past the end), an integer
\* looked up in a dict is a missing key, anything else is a TypeError
RECURSIVE Subscripts(_, _)
Subscripts(obj, path) ==
    IF path = <<>> THEN Value(obj)
    ELSE IF Head(path).t = "str"
    THEN IF obj.t # "dict" THEN Raise("TypeError")
         ELSE IF Head(path).v \notin DOMAIN obj.v THEN Raise("KeyError")
         ELSE Subscripts(obj.v[Head(path).v], Tail(path))
    ELSE IF obj.t = "dict" THEN Raise("KeyError")
         ELSE IF obj.t \notin {"list", "str"} THEN Raise("TypeError")
         ELSE IF Head(path).v >= Len(obj.v) THEN Raise("IndexError")
         ELSE IF obj.t = "list" THEN Subscripts(obj.v[Head(path).v + 1], Tail(path))
         ELSE Subscripts(JStr(<<obj.v[Head(path).v + 1]>>), Tail(path))

\* response_data['candidates'][0]['content']['parts'][0]['text']
ExtractText(response_data) ==
    Subscripts(response_data,
               <<Key("candidates"), Index(0), Key("content"), Key("parts"),
                 Index(0), Key("text")>>)

\* the reply of Scenario A of the specification
HiThere == <<"H", "i", " ", "t", "h", "e", "r", "e">>
\* "Run:" and, on the next lines, a fence tagged py around the code x=1
CodeReply == <<"R", "u", "n", ":", "\n", BQ, BQ, BQ, "p", "y", "\n",
               "x", "=", "1", "\n", BQ, BQ, BQ>>

WellFormed(text) ==
    JDict([candidates |-> JList(<<
        JDict([content |-> JDict([parts |-> JList(<<JDict([text |-> JStr(text)])>>)])])>>)])

\* HTTP-success bodies the endpoint may answer with; the first holds the path
\* candidates[0].content.parts[0].text, the others do not
Bodies == <<
    WellFormed(CodeReply),
    \* {"promptFeedback": {}}: key candidates missing
    JDict([promptFeedback |-> JDict([blockReason |-> JStr(<<"S">>)])]),
    \* {"candidates": []}: empty list
    JDict([candidates |-> JList(<<>>)]),
    \* {"candidates": [{"finishReason": "SAFETY"}]}: key content missing
    JDict([candidates |-> JList(<<JDict([finishReason |-> JStr(<<"S">>)])>>)]),
    \* {"candidates": [{"content": {"parts": []}}]}: empty parts
    JDict([candidates |-> JList(<<JDict([content |-> JDict([parts |-> JList(<<>>)])])>>)]),
    \* {"candidates": null}: wrong type at the first step
    JDict([candidates |-> JNull]),
    \* {"candidates": [{"content": "blocked"}]}: a string where a dict is expected
    JDict([candidates |-> JList(<<JDict([content |-> JStr(<<"b">>)])>>)]),
    \* {"candidates": [{"content": {"parts": {"text": "x"}}}]}: a dict where a list is expected
    JDict([candidates |-> JList(<<JDict([content |-> JDict([parts |-> JDict([text |-> JStr(<<"x">>)])])])>>)])
>>

\* what requests.post / raise_for_status / response.json() can end in:
\* a parsed JSON body, or an exception (the class that the except clauses see)
HttpOutcomes ==
    [kind : {"body"}, body : 1..Len(Bodies), exc : {"none"}]
    \cup
    \* timeout, transport failure, non-2xx status
    [kind : {"Timeout", "ConnectionError", "HTTPError"}, body : {0}, exc : {"RequestException"}]

\* has the body the path candidates[0].content.parts[0].text, ending in a string
HasTextPath(b) ==
    /\ b.t = "dict" /\ "candidates" \in DOMAIN b.v
    /\ LET c == b.v["candidates"] IN
       /\ c.t = "list" /\ Len(c.v) > 0
       /\ LET c0 == c.v[1] IN
          /\ c0.t = "dict" /\ "content" \in DOMAIN c0.v
          /\ LET ct == c0.v["content"] IN
             /\ ct.t = "dict" /\ "parts" \in DOMAIN ct.v
             /\ LET ps == ct.v["parts"] IN
                /\ ps.t = "list" /\ Len(ps.v) > 0
                /\ LET p0 == ps.v[1] IN
                   /\ p0.t = "dict" /\ "text" \in DOMAIN p0.v
                   /\ p0.v["text"].t = "str"

(* ---------------------------- segmenter ------------------------------- *)
\* \w of the regular expression (the characters of it that texts here use)
WordChars ==
    { "a", "b", "c", "d", "e", "f", "g", "h", "i", "j", "k", "l", "m", "n", "o",
      "p", "q", "r", "s", "t", "u", "v", "w", "x", "y", "z", "H", "N", "C", "P",
      "J", "R", "0", "1", "2", "3", "4", "5", "6", "7", "8", "9", "_" }
\* \s of the regular expression, and what str.strip() removes
SpaceChars == { " ", "\n", "\t", "\r" }

\* the value of a one-element set
The(S) == CHOOSE x \in S : TRUE

\* three backquotes at positions i, i+1, i+2 (1-based)
FenceAt(m, i) ==
    /\ i >= 1 /\ i + 2 <= Len(m)
    /\ m[i] = BQ /\ m[i + 1] = BQ /\ m[i + 2] = BQ

\* the first position >= j that holds no character of C (Len(m) + 1 at the end)
RECURSIVE RunEnd(_, _, _)
RunEnd(m, j, C) ==
    IF j <= Len(m) /\ m[j] \in C THEN RunEnd(m, j + 1, C) ELSE j

\* the lazy (.*?) before the closing fence: the first position p >= from with
\* a newline at p and a fence at p + 1; 0 when there is none
RECURSIVE ClosingAt(_, _)
ClosingAt(m, from) ==
    IF from > Len(m) THEN 0
    ELSE IF m[from] = "\n" /\ FenceAt(m, from + 1) THEN from
    ELSE ClosingAt(m, from + 1)

\* the greedy \s* giving back: the last newline at a position in lo..n from
\* which a closing fence is found; 0 when there is none
RECURSIVE LastNewline(_, _, _)
LastNewline(m, lo, n) ==
    IF n < lo THEN 0
    ELSE IF m[n] = "\n" /\ ClosingAt(m, n + 1) # 0 THEN n
    ELSE LastNewline(m, lo, n - 1)

NoMatch == [ok |-> FALSE, start |-> 0, lang |-> <<>>, code |-> <<>>, end |-> 0]

\* CODE_BLOCK_REGEX matched at position i: fence, (\w*) greedy up to w, \s*
\* greedy up to the newline n, (.*?) lazy up to the newline p before a fence
MatchAt(m, i) ==
    IF ~FenceAt(m, i) THEN NoMatch
    ELSE The({ The({ IF n = 0 THEN NoMatch
                     ELSE The({ [ok |-> TRUE, start |-> i,
                                 lang |-> SubSeq(m, i + 3, w - 1),
                                 code |-> SubSeq(m, n + 1, p - 1), end |-> p + 3] :
                                p \in { ClosingAt(m, n + 1) } }) :
                     n \in { LastNewline(m, w, RunEnd(m, w, SpaceChars) - 1) } }) :
               w \in { RunEnd(m, i + 3, WordChars) } })

\* the next match of finditer at or after position pos
RECURSIVE NextMatch(_, _)
NextMatch(m, pos) ==
    IF pos > Len(m) THEN NoMatch
    ELSE The({ IF match.ok THEN match ELSE NextMatch(m, pos + 1) :
               match \in { MatchAt(m, pos) } })

\* str.strip()
RECURSIVE LStrip(_)
LStrip(s) == IF s # <<>> /\ Head(s) \in SpaceChars THEN LStrip(Tail(s)) ELSE s

RECURSIVE RStrip(_)
RStrip(s) ==
    IF s # <<>> /\ s[Len(s)] \in SpaceChars THEN RStrip(SubSeq(s, 1, Len(s) - 1)) ELSE s

Strip(s) == RStrip(LStrip(s))

Segment(kind, raw) == [kind |-> kind, raw |-> raw]

\* the whole match kept as the code, fences included
MatchSegments_KeepFence(m, last_idx, match) ==
    <<Segment("Text", SubSeq(m, last_idx, match.start - 1)),
      Segment("Code", SubSeq(m, match.start, match.end))>>

\* what one match of the loop inserts: the text before it, the language label
\* when the tag is not empty, the code, and the save button carrying the code
MatchSegments(m, last_idx, match) ==
    LET code_content == Strip(match.code)
    IN  (IF match.start > last_idx
         THEN <<Segment("Text", SubSeq(m, last_idx, match.start - 1))>> ELSE <<>>)
        \o (IF match.lang # <<>> THEN <<Segment("LangLabel", match.lang)>> ELSE <<>>)
        \o <<Segment("Code", code_content), Segment("SaveButton", code_content)>>

\* _insert_gemini_parsed_message_content from position last_idx on (1-based)
RECURSIVE ParseFrom(_, _)
ParseFrom(m, last_idx) ==
    The({ IF match.ok
          THEN MatchSegments(m, last_idx, match) \o ParseFrom(m, match.end + 1)
          ELSE IF last_idx <= Len(m)
               THEN <<Segment("Text", SubSeq(m, last_idx, Len(m)))>> ELSE <<>> :
          match \in { NextMatch(m, last_idx) } })

ParsedMessageContent(message) == ParseFrom(message, 1)

\* the messages the segmenter is run on: every text of at most MaxTokens
\* tokens, a token being a fence, a word character, a newline or a blank
Tokens == { <<BQ, BQ, BQ>>, <<"a">>, <<"\n">>, <<" ">> }

RECURSIVE TokenTexts(_)
TokenTexts(k) ==
    IF k = 0 THEN { <<>> }
    ELSE LET T == TokenTexts(k - 1)
         IN  T \cup { t \o tok : t \in T, tok \in Tokens }

\* Scenario C of the specification: "Use ", a fence tagged python around
\* print(1), " now"
ScenarioC == <<"U", "s", "e", " ", BQ, BQ, BQ, "p", "y", "t", "h", "o", "n", "\n",
               "p", "r", "i", "n", "t", "(", "1", ")", "\n", BQ, BQ, BQ,
               " ", "n", "o", "w">>

SegTexts == TokenTexts(MaxTokens) \cup { ScenarioC, CodeReply, HiThere }

(* ------------------------------- state -------------------------------- *)
VARIABLES
    all_conversations,     \* list of {"title": ..., "history": [...]}
    current_chat_index,    \* self.current_chat_index, -1 before the first chat
    conversation_history,  \* the list self.conversation_history refers to: the
                           \* 0-based position of the record that owns it
    chat_display,          \* what the chat widget shows, one entry per message
    send_button_state,     \* self.send_button['state']
    input_entry_state,     \* self.input_entry['state']
    threads,               \* the worker threads started and not yet reaped
    after_queue,           \* callbacks handed to root.after(0, ...), in order
    turns,                 \* how many turns have been submitted
    callback_exc,          \* the exception the last handler ended with
    message,               \* the reply text handed to the segmenter
    files,                 \* path -> content written by save_code_to_file
    notification           \* title of the last messagebox shown

vars == <<all_conversations, current_chat_index, conversation_history,
          chat_display, send_button_state, input_entry_state,
          threads, after_queue, turns, callback_exc, message, files, notification>>

session == <<all_conversations, current_chat_index, conversation_history>>
widgets == <<send_button_state, input_entry_state>>
saving == <<message, files, notification>>

\* the list object owned by the record at 0-based position h
Hist(h) == all_conversations[h + 1].history

\* all_conversations with the list at position h replaced by history
WithHist(h, history) ==
    [all_conversations EXCEPT ![h + 1].history = history]

(* ------------------------------ display ------------------------------- *)
\* an entry of the chat widget: who it is shown for and its segments
Shown(who, text) ==
    [who |-> who,
     segs |-> IF who = "gemini" THEN ParsedMessageContent(text)
              ELSE <<Segment("Text", text)>>]

\* _insert_message_directly_into_display for every message of a history
RECURSIVE Rendered(_)
Rendered(history) ==
    IF history = <<>> THEN <<>>
    ELSE <<Shown(IF Head(history).role = "model" THEN "gemini" ELSE Head(history).role,
                 Head(history).text)>> \o Rendered(Tail(history))

\* f"Network or API error: {e}" and f"Could not parse API response: {e}",
\* kept as one token each
NetworkErrorText == <<"Network or API error: ">>
ParseErrorText == <<"Could not parse API response: ">>

(* ------------------------------- Init --------------------------------- *)
\* the state __init__ leaves: new_chat(initial_load=True) has run
Init ==
    /\ all_conversations = <<[title |-> NewChatTitle(1), history |-> <<>>]>>
    /\ current_chat_index = 0
    /\ conversation_history = 0
    /\ chat_display = <<>>
    /\ send_button_state = "normal"
    /\ input_entry_state = "normal"
    /\ threads = {}
    /\ after_queue = <<>>
    /\ turns = 0
    /\ callback_exc = "none"
    /\ message = <<>>
    /\ files = [p \in {} |-> <<>>]
    /\ notification = "none"

(* --------------------------- session store ---------------------------- *)
\* the guard of the block that saves the title of the chat being left
LeavingWithContent ==
    current_chat_index # -1 /\ Hist(conversation_history) # <<>>

\* all_conversations[self.current_chat_index] raises IndexError
CurrentRaises ==
    PyIndex(Len(all_conversations), current_chat_index) = NoIndex

\* 1-based position of all_conversations[self.current_chat_index]
CurrentPos == PyIndex(Len(all_conversations), current_chat_index) + 1

\* the block of new_chat and load_chat_session that saves the title of the
\* chat being left: a placeholder title becomes the title derived from the
\* first user message, or a timestamp when there is none
FinalizedTitles(ts) ==
    IF LeavingWithContent /\ IsPlaceholder(all_conversations[CurrentPos].title)
    THEN LET first_message_text == FirstUserText(Hist(conversation_history))
         IN  [all_conversations EXCEPT ![CurrentPos].title =
                 IF first_message_text # <<>> THEN DeriveTitle(first_message_text) ELSE ts]
    ELSE all_conversations

\* new_chat(initial_load=False), the "+ New Chat" button
new_chat ==
    /\ Len(all_conversations) + turns < MaxWork
    /\ IF LeavingWithContent /\ CurrentRaises
       THEN /\ callback_exc' = "IndexError"
            /\ UNCHANGED <<session, chat_display, notification>>
       ELSE \E ts \in Timestamps :
            LET saved == FinalizedTitles(ts)
                n == Len(saved)
            IN  /\ all_conversations' =
                       Append(saved, [title |-> NewChatTitle(n + 1), history |-> <<>>])
                /\ current_chat_index' = n
                /\ conversation_history' = n
                /\ chat_display' = <<>>
                /\ notification' = "New Chat"
                /\ callback_exc' = "none"
    /\ UNCHANGED <<widgets, threads, after_queue, turns, message, files>>

\* load_chat_session(index)
load_chat_session(index) ==
    /\ IF current_chat_index = index
       THEN /\ callback_exc' = "none"
            /\ UNCHANGED <<session, chat_display>>
       ELSE IF LeavingWithContent /\ CurrentRaises
            THEN /\ callback_exc' = "IndexError"
                 /\ UNCHANGED <<session, chat_display>>
            ELSE \E ts \in Timestamps :
                 LET saved == FinalizedTitles(ts)
                     pos == PyIndex(Len(saved), index)
                 IN  /\ all_conversations' = saved
                     /\ current_chat_index' = index
                     /\ IF pos = NoIndex
                        THEN /\ callback_exc' = "IndexError"
                             /\ UNCHANGED <<conversation_history, chat_display>>
                        ELSE /\ conversation_history' = pos
                             /\ chat_display' = Rendered(saved[pos + 1].history)
                             /\ callback_exc' = "none"
    /\ UNCHANGED <<send_button_state, input_entry_state, threads, after_queue,
                   turns, message, files, notification>>

\* the indices the buttons of the chat list carry (update_chat_list_ui)
ChatButtons == 0..(Len(all_conversations) - 1)

\* the indices a caller of load_chat_session may pass
ApiIndexes == (0 - MaxWork)..MaxWork

(* ------------------------------ a turn -------------------------------- *)
\* the test of the text alone
SubmitBlocked_IgnoresButton(user_prompt) == user_prompt = <<>>

\* the early return of send_message_event: nothing typed, or the send button
\* is disabled
SubmitBlocked(user_prompt) ==
    user_prompt = <<>> \/ send_button_state = "disabled"

\* the thread send_message_event starts, at its first line.  caught names the
\* except clause entered, exc the exception that no clause caught.  origin,
\* before and failed are history: the list current at submission, its
\* content then, and how the gateway call failed ("none" while it has not).
\* user_prompt is dropped once line 408 has used it
NewThread(user_prompt) ==
    [tid |-> turns + 1, pc |-> "request", user_prompt |-> user_prompt,
     model_response |-> <<>>, caught |-> "none", exc |-> "none", failed |-> "none",
     origin |-> conversation_history, before |-> Hist(conversation_history)]

\* send_message_event: the Send button and the Return key
send_message_event(user_prompt) ==
    IF SubmitBlocked(user_prompt)
    THEN /\ callback_exc' = "none"
         /\ UNCHANGED <<session, chat_display, widgets, threads, after_queue,
                        turns, saving>>
    ELSE /\ Len(all_conversations) + turns < MaxWork
         /\ IF Hist(conversation_history) = <<>> /\ current_chat_index # -1 /\ CurrentRaises
            THEN /\ callback_exc' = "IndexError"
                 /\ UNCHANGED <<session, chat_display, widgets, threads, turns>>
            ELSE /\ all_conversations' =
                     IF /\ Hist(conversation_history) = <<>>
                        /\ current_chat_index # -1
                        /\ IsPlaceholder(all_conversations[CurrentPos].title)
                     THEN [all_conversations EXCEPT
                              ![CurrentPos].title = DeriveTitle(user_prompt)]
                     ELSE all_conversations
                 /\ chat_display' = Append(chat_display, Shown("user", user_prompt))
                 /\ send_button_state' = "disabled"
                 /\ input_entry_state' = "disabled"
                 /\ threads' = threads \cup {NewThread(user_prompt)}
                 /\ turns' = turns + 1
                 /\ callback_exc' = "none"
                 /\ UNCHANGED <<current_chat_index, conversation_history>>
         /\ UNCHANGED <<after_queue, saving>>

Task(fn, who, text, tid) == [fn |-> fn, who |-> who, text |-> text, tid |-> tid]

Step(t, u) == threads' = (threads \ {t}) \cup {u}

\* which handler an exception raised in the try block reaches: the first
\* except clause takes RequestException, the second KeyError and IndexError
Handler(exc) ==
    IF exc = "RequestException" THEN "network"
    ELSE IF exc \in {"KeyError", "IndexError"} THEN "parse"
    ELSE "uncaught"

\* how the gateway call failed, in the terms of the error taxonomy
Failure(o) ==
    IF o.kind = "body" THEN (IF HasTextPath(Bodies[o.body]) THEN "none" ELSE "malformed")
    ELSE "network"

\* lines 408-415.  Line 408 appends the user message to the list that
\* self.conversation_history refers to when the thread runs; the request,
\* raise_for_status, response.json() and the extraction of the reply text
\* that follow touch only locals of the thread, so they are one step with it
w_request(t) ==
    /\ t.pc = "request"
    /\ all_conversations' =
           WithHist(conversation_history,
                    Append(Hist(conversation_history), Message("user", t.user_prompt)))
    /\ \E o \in HttpOutcomes :
       \E r \in { IF o.kind = "body" THEN ExtractText(Bodies[o.body]) ELSE Raise(o.exc) } :
       LET h == Handler(r.exc)
       IN  Step(t, [t EXCEPT
               !.failed = Failure(o),
               !.user_prompt = <<>>,
               !.model_response = IF r.exc = "none" THEN r.val.v ELSE <<>>,
               !.caught = IF r.exc # "none" /\ h # "uncaught" THEN h ELSE "none",
               !.exc = IF r.exc # "none" /\ h = "uncaught" THEN r.exc ELSE "none",
               !.pc = IF r.exc = "none" THEN "append_model"
                      ELSE IF h = "uncaught" THEN "finally" ELSE "except"])
    /\ UNCHANGED <<current_chat_index, conversation_history, chat_display, widgets,
                   after_queue, turns, callback_exc, saving>>

\* lines 416-417: the reply is appended to the list self.conversation_history
\* refers to now, and its display is handed to the main loop
w_append_model(t) ==
    /\ t.pc = "append_model"
    /\ all_conversations' =
           WithHist(conversation_history,
                    Append(Hist(conversation_history), Message("model", t.model_response)))
    /\ after_queue' =
           Append(after_queue, Task("display_message", "gemini", t.model_response, t.tid))
    /\ Step(t, [t EXCEPT !.pc = "finally"])
    /\ UNCHANGED <<current_chat_index, conversation_history, chat_display, widgets,
                   turns, callback_exc, saving>>

\* the condition of lines 420 and 424, on the list the attribute refers to
\* when it is evaluated
LastIsUser(history) ==
    history # <<>> /\ history[Len(history)].role = "user"

\* lines 419-420 and 423-424: the error message is handed to the main loop
\* and the rollback condition is evaluated
w_except(t) ==
    /\ t.pc = "except"
    /\ after_queue' =
           Append(after_queue,
                  Task("display_message", "error",
                       IF t.caught = "network" THEN NetworkErrorText
                       ELSE ParseErrorText, t.tid))
    /\ Step(t, [t EXCEPT !.pc = IF LastIsUser(Hist(conversation_history))
                                 THEN "pop" ELSE "finally"])
    /\ UNCHANGED <<session, chat_display, widgets, turns, callback_exc, saving>>

\* lines 421 and 425: self.conversation_history.pop(), on the list the
\* attribute refers to now; pop() of an empty list raises IndexError, which
\* no clause catches inside a handler
w_pop(t) ==
    /\ t.pc = "pop"
    /\ LET history == Hist(conversation_history)
       IN  IF history = <<>>
           THEN /\ Step(t, [t EXCEPT !.pc = "finally", !.exc = "IndexError"])
                /\ UNCHANGED all_conversations
           ELSE /\ Step(t, [t EXCEPT !.pc = "finally"])
                /\ all_conversations' =
                       WithHist(conversation_history, SubSeq(history, 1, Len(history) - 1))
    /\ UNCHANGED <<current_chat_index, conversation_history, chat_display, widgets,
                   after_queue, turns, callback_exc, saving>>

\* the same call made only when no exception is propagating
FinallyTasks_OnlyWhenHandled(t) ==
    IF t.exc = "none" THEN <<Task("set_processing_state", "", <<>>, t.tid)>> ELSE <<>>

\* line 427, the finally clause: what the thread hands to the main loop
\* before it ends, whatever happened in the try block
FinallyTasks(t) == <<Task("set_processing_state", "", <<>>, t.tid)>>

w_finally(t) ==
    /\ t.pc = "finally"
    /\ after_queue' = after_queue \o FinallyTasks(t)
    /\ Step(t, [t EXCEPT !.pc = "done"])
    /\ UNCHANGED <<session, chat_display, widgets, turns, callback_exc, saving>>

\* get_gemini_response, one step of the thread t
get_gemini_response(t) ==
    \/ w_request(t)
    \/ w_append_model(t)
    \/ w_except(t)
    \/ w_pop(t)
    \/ w_finally(t)

\* the Tk main loop runs the oldest callback handed to root.after:
\* display_message(who, text) or set_processing_state(False)
mainloop_after ==
    /\ after_queue # <<>>
    /\ LET task == Head(after_queue)
       IN  IF task.fn = "display_message"
           THEN /\ chat_display' = Append(chat_display, Shown(task.who, task.text))
                /\ UNCHANGED <<send_button_state, input_entry_state, threads>>
           ELSE /\ send_button_state' = "normal"
                /\ input_entry_state' = "normal"
                /\ threads' = {t \in threads : t.tid # task.tid}
                /\ UNCHANGED chat_display
    /\ after_queue' = Tail(after_queue)
    /\ UNCHANGED <<session, turns, callback_exc, saving>>

(* --------------------------- save to file ----------------------------- *)
\* the items of the filetypes list literal of save_code_to_file, as Python
\* parses them: a tuple literal followed on the next line by a parenthesised
\* pair, with no comma between them, is a call of the tuple
FiletypeItems ==
    <<"tuple", "tuple", "tuple", "tuple", "tuple", "tuple", "call_of_tuple",
      "tuple", "tuple", "tuple", "tuple", "tuple", "tuple", "call_of_tuple",
      "tuple", "tuple", "tuple">>

\* evaluating the arguments of filedialog.asksaveasfilename raises TypeError
\* ('tuple' object is not callable), before the dialog opens
FiletypesRaises ==
    \E i \in 1..Len(FiletypeItems) : FiletypeItems[i] = "call_of_tuple"

\* the paths the user may choose in the dialog; "" is Cancel
SavePaths == { "", "out.txt" }

\* how open() and f.write() may end
WriteOutcomes == { "written", "open_fails", "write_fails" }

\* the payloads of the save buttons the chat widget shows
SaveButtons ==
    UNION { { chat_display[i].segs[j].raw :
                j \in { k \in 1..Len(chat_display[i].segs) :
                          chat_display[i].segs[k].kind = "SaveButton" } } :
            i \in 1..Len(chat_display) }

\* files with code_content written to file_path
Written(file_path, content) ==
    [p \in DOMAIN files \cup {file_path} |-> IF p = file_path THEN content ELSE files[p]]

\* save_code_to_file(code_content), the command of a save button
save_code_to_file(code_content) ==
    /\ IF FiletypesRaises
       THEN /\ callback_exc' = "TypeError"
            /\ UNCHANGED <<files, notification>>
       ELSE \E file_path \in SavePaths, outcome \in WriteOutcomes :
            /\ callback_exc' = "none"
            /\ IF file_path = ""
               THEN UNCHANGED <<files, notification>>
               ELSE IF outcome = "written"
                    THEN /\ files' = Written(file_path, code_content)
                         /\ notification' = "Save Successful"
                    ELSE /\ files' = IF outcome = "write_fails"
                                     THEN Written(file_path, <<>>) ELSE files
                         /\ notification' = "Save Error"
    /\ UNCHANGED <<session, chat_display, widgets, threads, after_queue, turns, message>>

\* display_message("gemini", message): the reply is parsed and shown
display_reply ==
    /\ chat_display = <<>>
    /\ chat_display' = Append(chat_display, Shown("gemini", message))
    /\ UNCHANGED <<session, widgets, threads, after_queue, turns, callback_exc, saving>>

(* --------------------------- specifications --------------------------- *)
\* the program driven through its widgets
Next ==
    \/ \E user_prompt \in Prompts : send_message_event(user_prompt)
    \/ new_chat
    \/ \E index \in ChatButtons : load_chat_session(index)
    \/ \E t \in threads : w_request(t)
    \/ \E t \in threads : w_append_model(t)
    \/ \E t \in threads : w_except(t)
    \/ \E t \in threads : w_pop(t)
    \/ \E t \in threads : w_finally(t)
    \/ mainloop_after

Spec == Init /\ [][Next]_vars

\* the worker thread runs to its end (the request returns or times out
\* after 75 s) and the Tk main loop keeps running the callbacks handed to it
Fairness ==
    /\ WF_vars(\E t \in threads : get_gemini_response(t))
    /\ WF_vars(mainloop_after)

LiveSpec == Init /\ [][Next]_vars /\ Fairness

\* the program with load_chat_session called with any index
NextApi ==
    \/ \E user_prompt \in Prompts : send_message_event(user_prompt)
    \/ new_chat
    \/ \E index \in ApiIndexes : load_chat_session(index)
    \/ \E t \in threads : w_request(t)
    \/ \E t \in threads : w_append_model(t)
    \/ \E t \in threads : w_except(t)
    \/ \E t \in threads : w_pop(t)
    \/ \E t \in threads : w_finally(t)
    \/ mainloop_after

SpecApi == Init /\ [][NextApi]_vars

\* the segmenter and the save buttons on every message of SegTexts: a reply
\* is shown in the fresh window and its save buttons are pressed
InitSeg ==
    /\ all_conversations = <<[title |-> NewChatTitle(1), history |-> <<>>]>>
    /\ current_chat_index = 0
    /\ conversation_history = 0
    /\ chat_display = <<>>
    /\ send_button_state = "normal"
    /\ input_entry_state = "normal"
    /\ threads = {}
    /\ after_queue = <<>>
    /\ turns = 0
    /\ callback_exc = "none"
    /\ message \in SegTexts
    /\ files = [p \in {} |-> <<>>]
    /\ notification = "none"

NextSeg ==
    \/ display_reply
    \/ \E code_content \in SaveButtons : save_code_to_file(code_content)

SpecSeg == InitSeg /\ [][NextSeg]_vars

(* ------------------------------- claims ------------------------------- *)
\* C1: when a turn whose gateway request failed has completed, the transcript
\* of the conversation in which it was submitted equals what it was just
\* before the user's message was appended.
C1_RollbackExact ==
    \A t \in threads :
        (t.pc = "done" /\ t.failed # "none") => Hist(t.origin) = t.before

\* a transcript made of user/model pairs only
C2_ConfirmedExchanges(history) ==
    /\ Len(history) % 2 = 0
    /\ \A k \in 1..Len(history) :
           history[k].role = IF k % 2 = 1 THEN "user" ELSE "model"

\* C2: whenever no request is in flight, every transcript is a sequence of
\* pairs, a user message followed by its model reply.
C2_OnlyConfirmedExchanges ==
    threads = {} =>
        \A i \in 1..Len(all_conversations) :
            C2_ConfirmedExchanges(all_conversations[i].history)

\* C3: every gateway failure is caught by an except clause, which shows the
\* error and rolls the user turn back; a body without the text path ends in
\* the parse-error clause, and nothing escapes the thread uncaught.
C3_FailuresCaught ==
    \A t \in threads :
        (t.pc = "done" /\ t.failed # "none") =>
            /\ t.exc = "none"
            /\ t.caught = IF t.failed = "malformed" THEN "parse" ELSE "network"
            /\ Hist(t.origin) = t.before

\* C4: whenever the input is disabled by a submitted turn, it is eventually
\* enabled again.
C4_InputReenabled ==
    (send_button_state = "disabled" /\ input_entry_state = "disabled")
        ~> (send_button_state = "normal" /\ input_entry_state = "normal")

\* a turn failed while the user had created a new chat, and the input is
\* enabled again
C4_Witness ==
    /\ turns = 1 /\ threads = {} /\ after_queue = <<>>
    /\ send_button_state = "normal" /\ input_entry_state = "normal"
    /\ current_chat_index = 1
    /\ Hist(0) = <<Message("user", PlanTrip)>>

\* derive(t) in the words of the claim
C5_derive(t) ==
    IF Len(t) <= 30 THEN t ELSE SubSeq(t, 1, 30) \o <<".", ".", ".">>

\* a title still in placeholder form: it begins with "New Chat"
C5_placeholder(title) ==
    Len(title) >= 8 /\ SubSeq(title, 1, 8) = <<"N", "e", "w", " ", "C", "h", "a", "t">>

C5_titles == { all_conversations[i].title : i \in 1..Len(all_conversations) }

\* submitting the first message of a conversation with a placeholder title
\* sets the title to derive(that message)
C5_FirstMessage ==
    \A t \in threads' :
        ( /\ t.tid \notin { u.tid : u \in threads }
          /\ Hist(conversation_history) = <<>>
          /\ C5_placeholder(all_conversations[current_chat_index + 1].title) )
        => all_conversations'[current_chat_index + 1].title = C5_derive(t.user_prompt)

\* leaving a conversation with a placeholder title and a non-empty transcript
\* sets its title to derive(first user message), or to a timestamp when the
\* transcript holds no user message
C5_SwitchAway ==
    ( /\ current_chat_index' # current_chat_index
      /\ Hist(conversation_history) # <<>>
      /\ C5_placeholder(all_conversations[current_chat_index + 1].title) )
    => LET first == FirstUserText(Hist(conversation_history))
           title == all_conversations'[current_chat_index + 1].title
       IN  IF first # <<>> THEN title = C5_derive(first) ELSE title \in Timestamps

\* a title changes in no other step, and only while it is a placeholder
C5_OnlyThen ==
    \A i \in 1..Len(all_conversations) :
        all_conversations'[i].title # all_conversations[i].title =>
            /\ i = current_chat_index + 1
            /\ C5_placeholder(all_conversations[i].title)
            /\ turns' = turns + 1 \/ current_chat_index' # current_chat_index

C6_CurrentIndexValid ==
    /\ 0 <= current_chat_index
    /\ current_chat_index < Len(all_conversations)
    /\ conversation_history = current_chat_index

\* C7: load_chat_session with an index that is no conversation index (and not
\* the current index) ends in an out-of-range error.
C7_OutOfRangeFails ==
    [][\A index \in ApiIndexes :
          ( /\ index \notin ChatButtons
            /\ index # current_chat_index
            /\ load_chat_session(index) )
          => callback_exc' = "IndexError"]_vars

\* C8: pressing a save button with payload c ends with a file holding exactly
\* c or with the write failure reported, and leaves the session unchanged.
C8_SaveOutcome ==
    [][\A c \in SaveButtons :
          save_code_to_file(c) =>
              /\ \/ \E p \in DOMAIN files' : files'[p] = c
                 \/ notification' = "Save Error"
              /\ UNCHANGED session]_vars

\* the raw contents of the Text, LangLabel and Code segments, in order
RECURSIVE C9_RawConcat(_)
C9_RawConcat(segs) ==
    IF segs = <<>> THEN <<>>
    ELSE (IF Head(segs).kind = "SaveButton" THEN <<>> ELSE Head(segs).raw)
         \o C9_RawConcat(Tail(segs))

\* the segments of the reply shown, and how many of them are code
C9_segs == chat_display[1].segs

C9_blocks == Cardinality({ k \in 1..Len(C9_segs) : C9_segs[k].kind = "Code" })

\* three backquotes in a row somewhere in the message
C9_HasFence ==
    \E i \in 1..Len(message) :
        i + 2 <= Len(message) /\ message[i] = BQ /\ message[i + 1] = BQ /\ message[i + 2] = BQ

\* C9 (as stated): the raw contents of the Text, LangLabel and Code segments
\* of a message, concatenated in order, are the message.
C9_RoundTrip ==
    chat_display # <<>> => C9_RawConcat(C9_segs) = message

\* C9 (as amended): the concatenation is the message when the segmenter
\* finds no code block, as in every message without a fence; for each block
\* found it is at least 8 characters shorter (the two fences and the two
\* newlines that delimit the code are in no segment).
C9_RoundTripWithoutBlocks ==
    chat_display # <<>> =>
        /\ ~C9_HasFence => C9_blocks = 0
        /\ C9_blocks = 0 => C9_RawConcat(C9_segs) = message
        /\ C9_blocks > 0 => Len(C9_RawConcat(C9_segs)) + 8 * C9_blocks <= Len(message)

\* Scenario C: Text "Use ", LangLabel python, Code print(1) with its save
\* button, Text " now"
C9_Witness ==
    /\ message = ScenarioC
    /\ chat_display # <<>>
    /\ C9_segs = << Segment("Text", <<"U", "s", "e", " ">>),
                    Segment("LangLabel", <<"p", "y", "t", "h", "o", "n">>),
                    Segment("Code", <<"p", "r", "i", "n", "t", "(", "1", ")">>),
                    Segment("SaveButton", <<"p", "r", "i", "n", "t", "(", "1", ")">>),
                    Segment("Text", <<" ", "n", "o", "w">>) >>

\* C10: at most one request thread exists between the submission of a turn
\* and the processing of its result, and the input stays disabled meanwhile.
C10_AtMostOneInFlight ==
    /\ Cardinality(threads) <= 1
    /\ threads # {} =>
           send_button_state = "disabled" /\ input_entry_state = "disabled"

\* a second turn is in flight after the first was processed
C10_Witness ==
    /\ turns = 2
    /\ Cardinality(threads) = 1
    /\ \E t \in threads : t.tid = 2 /\ t.pc = "except"
    /\ send_button_state = "disabled"

\* C11: no step of the worker thread touches the session store: the
\* conversations, their transcripts and the current-transcript handle change
\* only in steps of the main thread.
C11_WorkerLeavesStore ==
    [][\A t \in threads : get_gemini_response(t) => UNCHANGED session]_vars

\* the transcripts of the conversations other than the one at position h
C12_Others(h, convs) ==
    [i \in (1..Len(convs)) \ {h + 1} |-> convs[i].history]

\* C12: a step of a turn leaves the transcripts of all conversations but the
\* one it was submitted in unchanged, and a turn that succeeded has appended
\* its user message and its reply to that conversation.
C12_OwnConversationOnly ==
    /\ [][\A t \in threads :
            get_gemini_response(t) =>
                C12_Others(t.origin, all_conversations')
                    = C12_Others(t.origin, all_conversations)]_vars
    /\ [](\A t \in threads :
            (t.pc = "done" /\ t.failed = "none") =>
                /\ Len(Hist(t.origin)) = Len(t.before) + 2
                /\ SubSeq(Hist(t.origin), 1, Len(t.before)) = t.before
                /\ Hist(t.origin)[Len(t.before) + 1].role = "user"
                /\ Hist(t.origin)[Len(t.before) + 2] = Message("model", t.model_response))

\* an auto-numbered placeholder title, "New Chat N"
C13_AutoNumbered(title) ==
    \E n \in 1..Len(all_conversations) : title = NewChatTitle(n)

\* C13: a title that is no longer the auto-numbered placeholder is changed
\* by no later step.
C13_TitleFinal ==
    [][\A i \in 1..Len(all_conversations) :
          ~C13_AutoNumbered(all_conversations[i].title) =>
              all_conversations'[i].title = all_conversations[i].title]_vars

====
